---- MODULE Spec2Model ----
(***************************************************************************)
(* Model of the ChessGame React component (src/components/ChessGame.tsx).  *)
(*                                                                         *)
(* The component keeps four pieces of React state (game, difficulty,       *)
(* showHint, hintMove) and schedules two kinds of timer callbacks:         *)
(* makeComputerMove (300 ms after a successful drop) and the hint-hiding   *)
(* callback (2000 ms after getHint).  A timer callback is the closure of   *)
(* the render in which it was scheduled: it reads the game and the         *)
(* difficulty of that render.                                              *)
(*                                                                         *)
(* The rules engine (chess.js) is an external library.  It is modelled     *)
(* here as a chess engine on a reduced board given by DEFAULT_POSITION:    *)
(* kings, queens, rooks, bishops, knights and pawns move, capture, give    *)
(* check, mate and stalemate as in chess, with the move order of chess.js. *)
(* Castling, en passant, the fifty-move rule and repetition are left out.  *)
(***************************************************************************)
EXTENDS Integers, Sequences, FiniteSets, TLC

\* ------------------------------------------------------------------------
\* Rules engine: board, pieces, squares
\* ------------------------------------------------------------------------

\* <<F(1), ..., F(n)>>, built element by element.
RECURSIVE Tabulate(_, _)
Tabulate(F(_), n) == IF n = 0 THEN <<>> ELSE Append(Tabulate(F, n - 1), F(n))

\* A square of the board as game.board() returns it: a piece or null.
Piece(c, t) == [color |-> c, type |-> t]
null == [color |-> "-", type |-> "-"]

\* The FEN of the starting position (DEFAULT_POSITION in chess.js): the rows
\* from Black's back rank down to White's, upper case White, lower case
\* Black, a digit for a run of empty squares; then the side to move.
DEFAULT_POSITION ==
  [placement |-> << <<"k", "r", "1">>,
                    <<"p", "2">>,
                    <<"3">>,
                    <<"1", "P", "1">>,
                    <<"1", "R", "K">> >>,
   turn |-> "w"]

Digits == <<"1", "2", "3", "4", "5", "6", "7", "8">>
DigitVal(tok) ==
  IF \E n \in 1..Len(Digits) : Digits[n] = tok
  THEN CHOOSE n \in 1..Len(Digits) : Digits[n] = tok
  ELSE 0

\* The board of the modelled engine: Ranks rows of Files squares.
Ranks == 5
Files == 3
NSq == Ranks * Files
Squares == 1..NSq

\* Square s counts from the top-left corner (a8 in chess.js) row by row.
Row(s) == (s - 1) \div Files
Col(s) == (s - 1) % Files
Sq(r, c) == r * Files + c + 1
OnBoard(r, c) == r >= 0 /\ r < Ranks /\ c >= 0 /\ c < Files

\* FEN letters of the pieces.
Letter(p) ==
  IF p.color = "w"
  THEN CASE p.type = "k" -> "K" [] p.type = "q" -> "Q" [] p.type = "r" -> "R"
         [] p.type = "b" -> "B" [] p.type = "n" -> "N" [] OTHER -> "P"
  ELSE CASE p.type = "k" -> "k" [] p.type = "q" -> "q" [] p.type = "r" -> "r"
         [] p.type = "b" -> "b" [] p.type = "n" -> "n" [] OTHER -> "p"

FromLetter(l) ==
  CASE l = "K" -> Piece("w", "k") [] l = "Q" -> Piece("w", "q")
    [] l = "R" -> Piece("w", "r") [] l = "B" -> Piece("w", "b")
    [] l = "N" -> Piece("w", "n") [] l = "P" -> Piece("w", "p")
    [] l = "k" -> Piece("b", "k") [] l = "q" -> Piece("b", "q")
    [] l = "r" -> Piece("b", "r") [] l = "b" -> Piece("b", "b")
    [] l = "n" -> Piece("b", "n") [] l = "p" -> Piece("b", "p")
    [] OTHER -> null

\* game.fen(): the piece placement row by row and the side to move.
RECURSIVE EncodeRow(_, _, _, _)
EncodeRow(board, r, c, run) ==
  IF c = Files
  THEN (IF run > 0 THEN <<Digits[run]>> ELSE <<>>)
  ELSE IF board[Sq(r, c)] = null
       THEN EncodeRow(board, r, c + 1, run + 1)
       ELSE (IF run > 0 THEN <<Digits[run]>> ELSE <<>>)
            \o <<Letter(board[Sq(r, c)])>>
            \o EncodeRow(board, r, c + 1, 0)

fen(g) ==
  LET FenRow(r) == EncodeRow(g.board, r - 1, 0, 0)
  IN [placement |-> Tabulate(FenRow, Ranks), turn |-> g.turn]

\* new Chess(fen): load the placement and the side to move.
RECURSIVE DecodeRow(_)
DecodeRow(toks) ==
  IF toks = <<>> THEN <<>>
  ELSE (IF DigitVal(Head(toks)) > 0
        THEN LET Empty(i) == null IN Tabulate(Empty, DigitVal(Head(toks)))
        ELSE <<FromLetter(Head(toks))>>)
       \o DecodeRow(Tail(toks))

RECURSIVE DecodeRows(_)
DecodeRows(rows) ==
  IF rows = <<>> THEN <<>> ELSE DecodeRow(Head(rows)) \o DecodeRows(Tail(rows))

Chess(f) == [board |-> DecodeRows(f.placement), turn |-> f.turn]

\* new Chess() with no argument.
NewChess == Chess(DEFAULT_POSITION)

\* ------------------------------------------------------------------------
\* Rules engine: move generation (the order of chess.js)
\* ------------------------------------------------------------------------

Other(c) == IF c = "w" THEN "b" ELSE "w"

\* <<rows down, columns right>> for the 0x88 offsets of chess.js.
KnightOffsets ==
  << <<-1, -2>>, <<-2, -1>>, <<-2, 1>>, <<-1, 2>>,
     <<1, 2>>, <<2, 1>>, <<2, -1>>, <<1, -2>> >>
BishopOffsets == << <<-1, -1>>, <<-1, 1>>, <<1, 1>>, <<1, -1>> >>
RookOffsets == << <<-1, 0>>, <<0, 1>>, <<1, 0>>, <<0, -1>> >>
QueenOffsets ==
  << <<-1, -1>>, <<-1, 0>>, <<-1, 1>>, <<0, 1>>,
     <<1, 1>>, <<1, 0>>, <<1, -1>>, <<0, -1>> >>
\* Each piece's offsets as places in QueenOffsets, in the piece's own order
\* (BishopOffsets, RookOffsets); the knight has its own table.
OffsetIndex(t) ==
  CASE t = "b" -> <<1, 3, 5, 7>> [] t = "r" -> <<2, 4, 6, 8>>
    [] OTHER -> <<1, 2, 3, 4, 5, 6, 7, 8>>
PROMOTIONS == <<"n", "b", "r", "q">>

Forward(c) == IF c = "w" THEN -1 ELSE 1
SecondRank(c) == IF c = "w" THEN Ranks - 2 ELSE 1
LastRank(c) == IF c = "w" THEN 0 ELSE Ranks - 1
\* The pawn's capture offsets (PAWN_OFFSETS[c][2..3]) as places in
\* QueenOffsets: up-left and up-right for White, down-right and down-left
\* for Black.
PawnCaptureIndex(c) == IF c = "w" THEN <<1, 3>> ELSE <<5, 7>>

Mv(from, to, promo) == [from |-> from, to |-> to, promotion |-> promo]
NoPromotion == "-"

\* The squares met from s in steps of offset d, up to the edge of the board.
RECURSIVE RayFrom(_, _, _)
RayFrom(s, d, k) ==
  IF OnBoard(Row(s) + k * d[1], Col(s) + k * d[2])
  THEN <<Sq(Row(s) + k * d[1], Col(s) + k * d[2])>> \o RayFrom(s, d, k + 1)
  ELSE <<>>

\* Rays[s][i]: the ray from s along the i-th of the queen's offsets, and
\* Jumps[s][i]: the square a knight's i-th offset away from s, if any.
Rays ==
  LET OfSquare(s) == LET Along(i) == RayFrom(s, QueenOffsets[i], 1)
                     IN Tabulate(Along, 8)
  IN Tabulate(OfSquare, NSq)
Jumps ==
  LET OfSquare(s) == LET Along(i) ==
                           IF OnBoard(Row(s) + KnightOffsets[i][1],
                                      Col(s) + KnightOffsets[i][2])
                           THEN <<Sq(Row(s) + KnightOffsets[i][1],
                                     Col(s) + KnightOffsets[i][2])>>
                           ELSE <<>>
                     IN Tabulate(Along, 8)
  IN Tabulate(OfSquare, NSq)

\* The squares a piece of side us reaches along one ray: one step for king
\* and knight, up to the first occupied square for the sliders.
RECURSIVE RayTargets(_, _, _, _, _)
RayTargets(board, us, ray, k, sliding) ==
  IF k > Len(ray) THEN <<>>
  ELSE IF board[ray[k]] = null
       THEN <<ray[k]>>
            \o (IF sliding THEN RayTargets(board, us, ray, k + 1, sliding)
                ELSE <<>>)
       ELSE IF board[ray[k]].color # us THEN <<ray[k]>> ELSE <<>>

RECURSIVE PieceTargets(_, _, _, _)
PieceTargets(board, s, offs, i) ==
  IF i > Len(offs) THEN <<>>
  ELSE RayTargets(board, board[s].color,
                  IF board[s].type = "n" THEN Jumps[s][offs[i]]
                  ELSE Rays[s][offs[i]],
                  1, board[s].type \in {"b", "r", "q"})
       \o PieceTargets(board, s, offs, i + 1)

\* Pawn: single step, double step from the second rank, then the two captures.
PawnTargets(board, s) ==
  LET us == board[s].color
      ahead == Rays[s][IF us = "w" THEN 2 ELSE 6]
      step1 == Len(ahead) >= 1 /\ board[ahead[1]] = null
      single == IF step1 THEN <<ahead[1]>> ELSE <<>>
      double == IF step1 /\ Row(s) = SecondRank(us) /\ Len(ahead) >= 2
                   /\ board[ahead[2]] = null
                THEN <<ahead[2]>> ELSE <<>>
      Cap(i) == IF Rays[s][i] # <<>> /\ board[Rays[s][i][1]].color = Other(us)
                THEN <<Rays[s][i][1]>> ELSE <<>>
  IN single \o double \o Cap(PawnCaptureIndex(us)[1])
            \o Cap(PawnCaptureIndex(us)[2])

Targets(board, s) ==
  IF board[s].type = "p" THEN PawnTargets(board, s)
  ELSE PieceTargets(board, s, OffsetIndex(board[s].type), 1)

\* addMove: a pawn reaching the last rank yields one move per promotion.
AddMove(board, s, t) ==
  IF board[s].type = "p" /\ Row(t) = LastRank(board[s].color)
  THEN LET Promote(i) == Mv(s, t, PROMOTIONS[i])
       IN Tabulate(Promote, Len(PROMOTIONS))
  ELSE <<Mv(s, t, NoPromotion)>>

RECURSIVE AddMoves(_, _, _)
AddMoves(board, s, ts) ==
  IF ts = <<>> THEN <<>>
  ELSE AddMove(board, s, Head(ts)) \o AddMoves(board, s, Tail(ts))

\* Pseudo-legal moves of side us, scanning the board from the top-left.
RECURSIVE PseudoMoves(_, _, _)
PseudoMoves(board, us, s) ==
  IF s > NSq THEN <<>>
  ELSE (IF board[s].color = us
        THEN AddMoves(board, s, Targets(board, s)) ELSE <<>>)
       \o PseudoMoves(board, us, s + 1)

\* The first occupied square of a ray, or 0.
RECURSIVE FirstPiece(_, _, _)
FirstPiece(board, ray, k) ==
  IF k > Len(ray) THEN 0
  ELSE IF board[ray[k]] # null THEN ray[k]
  ELSE FirstPiece(board, ray, k + 1)

\* Whether a piece of side by attacks square t: a slider, or the king next
\* to t, first on a line towards t; a knight a knight's move away; a pawn
\* on a square from which it captures on t.
Attacked(board, by, t) ==
  \/ \E i \in 1..8 :
       LET f == FirstPiece(board, Rays[t][i], 1)
       IN /\ f # 0
          /\ board[f].color = by
          /\ \/ board[f].type = "q"
             \/ board[f].type = "r" /\ i \in {2, 4, 6, 8}
             \/ board[f].type = "b" /\ i \in {1, 3, 5, 7}
             \/ board[f].type = "k" /\ f = Rays[t][i][1]
  \/ \E i \in 1..8 :
       Jumps[t][i] # <<>> /\ board[Jumps[t][i][1]] = Piece(by, "n")
  \/ \E i \in 1..2 :
       LET back == Rays[t][PawnCaptureIndex(Other(by))[i]]
       IN back # <<>> /\ board[back[1]] = Piece(by, "p")

KingAttacked(board, c) ==
  \E t \in Squares : board[t] = Piece(c, "k") /\ Attacked(board, Other(c), t)

\* MakeMove leaving the turn with the side that moved: C14 tells the two
\* apart.
MakeMoveSameTurn(g, m) ==
  [board |-> [g.board EXCEPT
                ![m.to] = IF m.promotion # NoPromotion
                          THEN Piece(g.turn, m.promotion) ELSE g.board[m.from],
                ![m.from] = null],
   turn |-> g.turn]

\* makeMove on the board: the piece (or the promoted piece) lands on m.to.
MakeMove(g, m) ==
  [board |-> [g.board EXCEPT
                ![m.to] = IF m.promotion # NoPromotion
                          THEN Piece(g.turn, m.promotion) ELSE g.board[m.from],
                ![m.from] = null],
   turn |-> Other(g.turn)]

\* The legal moves: the pseudo-legal ones that do not leave the king attacked.
LegalMoves(g) ==
  SelectSeq(PseudoMoves(g.board, g.turn, 1),
            LAMBDA m : ~KingAttacked(MakeMove(g, m).board, g.turn))

\* A move in standard algebraic notation, as game.moves() lists it: the
\* piece, its origin, whether it captures, the destination, the promotion.
\* (The string of chess.js shortens the origin to what tells the legal
\* moves of the position apart; either way a SAN names one legal move.)
San(g, m) ==
  [piece |-> g.board[m.from].type, from |-> m.from,
   capture |-> g.board[m.to] # null, to |-> m.to, promotion |-> m.promotion]

\* game.moves(): the SAN of every legal move, in generation order.
moves(g) ==
  LET L == LegalMoves(g)
      Name(i) == San(g, L[i])
  IN Tabulate(Name, Len(L))

\* The names the board component gives the squares: file letter and rank.
FileLetters == <<"d", "e", "f", "g", "h">>
Algebraic(s) == <<FileLetters[Col(s) + 1], Ranks - Row(s)>>

\* Whether m is one of the legal moves of g.
IsLegal(g, m) ==
  /\ m.from \in Squares /\ m.to \in Squares
  /\ g.board[m.from] # null /\ g.board[m.from].color = g.turn
  /\ \E i \in 1..Len(Targets(g.board, m.from)) : Targets(g.board, m.from)[i] = m.to
  /\ (m.promotion # NoPromotion) =
       (g.board[m.from].type = "p" /\ Row(m.to) = LastRank(g.turn))
  /\ ~KingAttacked(MakeMove(g, m).board, g.turn)

\* game.move(san): the legal move with that SAN, played on the object; an
\* invalid move leaves the object as it was (move reports failure).
move(g, san) ==
  LET m == Mv(san.from, san.to, san.promotion)
  IN IF IsLegal(g, m) /\ San(g, m) = san THEN MakeMove(g, m) ELSE g

\* game.move({from, to, promotion}): among the legal moves, those between
\* the two named squares that promote to the given piece or do not promote;
\* the first of them is played.
DropMatches(legal, from, to, promo) ==
  SelectSeq(legal,
            LAMBDA m : /\ Algebraic(m.from) = from
                       /\ Algebraic(m.to) = to
                       /\ m.promotion \in {NoPromotion, promo})

\* Terminal predicates of the rules engine.
isCheck(g) == KingAttacked(g.board, g.turn)
isCheckmate(g) == isCheck(g) /\ LegalMoves(g) = <<>>
isStalemate(g) == ~isCheck(g) /\ LegalMoves(g) = <<>>
isInsufficientMaterial(g) ==
  LET others == {s \in Squares : g.board[s] # null /\ g.board[s].type # "k"}
  IN \/ others = {}
     \/ /\ Cardinality(others) = 1
        /\ \A s \in others : g.board[s].type \in {"b", "n"}
     \/ /\ \A s \in others : g.board[s].type = "b"
        /\ \A s, t \in others : (Row(s) + Col(s)) % 2 = (Row(t) + Col(t)) % 2
isDraw(g) == isStalemate(g) \/ isInsufficientMaterial(g)
\* isCheckmate() || isStalemate() || isDraw(), the legal moves listed once.
isGameOver(g) ==
  LET none == LegalMoves(g) = <<>>
      check == isCheck(g)
  IN (check /\ none) \/ (~check /\ none) \/ isInsufficientMaterial(g)

\* ------------------------------------------------------------------------
\* The component: evaluation and move selection
\* ------------------------------------------------------------------------

\* pieceValues with the bishop worth 4: C13 tells the two apart.
pieceValuesBishopFour(t) ==
  CASE t = "p" -> 1 [] t = "n" -> 3 [] t = "b" -> 4
    [] t = "r" -> 5 [] t = "q" -> 9 [] OTHER -> 0

pieceValues(t) ==
  CASE t = "p" -> 1 [] t = "n" -> 3 [] t = "b" -> 3
    [] t = "r" -> 5 [] t = "q" -> 9 [] OTHER -> 0

\* evaluatePosition: over every square of game.board(), the value of the
\* piece on it, counted positive for White and negative for Black.
RECURSIVE SumBoard(_, _)
SumBoard(board, s) ==
  IF s > NSq THEN 0
  ELSE (IF board[s] # null
        THEN pieceValues(board[s].type) * (IF board[s].color = "w" THEN 1 ELSE -1)
        ELSE 0)
       + SumBoard(board, s + 1)

\* evaluatePosition counting for the side to move instead of for White:
\* C19 tells the two apart.
evaluatePositionForMover(g) ==
  SumBoard(g.board, 1) * (IF g.turn = "w" THEN 1 ELSE -1)

evaluatePosition(g) == SumBoard(g.board, 1)

\* Math.random() * bound takes any value in [0, bound).  Evaluations are
\* integers and the bounds are 2 and 0.5, so the draws are modelled in steps
\* of 1/(2 * Grain): Grain levels cover [0, 0.5), 4 * Grain cover [0, 2).
\* A score is kept in the same steps: evaluation * 2 * Grain + noise level.
Grain == 2
\* NoiseLevels with the wide bound for every depth up to 3: C9 tells the
\* two apart.
NoiseLevelsWideUpToThree(depth) == 0..((IF depth <= 3 THEN 4 ELSE 1) * Grain - 1)

NoiseLevels(depth) == 0..((IF depth = 2 THEN 4 ELSE 1) * Grain - 1)

\* The values hintMove can hold besides a SAN: '' and undefined.
EmptyString == [str |-> ""]
undefined == [undef |-> TRUE]

\* TryMove playing the move on the object it is given instead of a copy:
\* C8 tells the two apart.
TryMoveInPlace(g, san) ==
  [value |-> evaluatePosition(move(g, san)), game |-> move(g, san)]

\* The body of the forEach callback up to the evaluation: the move is
\* played on a copy made from the FEN.  Returns the evaluation and the
\* object passed to findBestMove as the body leaves it.
TryMove(g, san) ==
  [value |-> evaluatePosition(move(Chess(fen(g)), san)), game |-> g]

\* Better with greater-or-equal: C12 tells the two apart.
BetterOrEqual(a, san, value) ==
  IF a.negInfinity \/ value >= a.bestValue
  THEN [bestMove |-> san, bestValue |-> value, negInfinity |-> FALSE]
  ELSE a

\* The comparison of the callback: a strictly greater score replaces the
\* best so far (bestValue starts at -Infinity).
Better(a, san, value) ==
  IF a.negInfinity \/ value > a.bestValue
  THEN [bestMove |-> san, bestValue |-> value, negInfinity |-> FALSE]
  ELSE a

\* moves.forEach over every outcome of the random draws: random[i] is the
\* set of levels Math.random() * bound can give in the callback of move i,
\* accs the set of (bestMove, bestValue) the loop can hold before move i.
\* Compare is the rest of the callback once move i has been tried with
\* result t.
RECURSIVE ForEach(_, _, _, _, _)
RECURSIVE Compare(_, _, _, _, _)
ForEach(ms, i, g, accs, random) ==
  IF i > Len(ms) THEN [outcomes |-> accs, game |-> g]
  ELSE Compare(ms, i, TryMove(g, ms[i]), accs, random)
Compare(ms, i, t, accs, random) ==
  ForEach(ms, i + 1, t.game,
          {Better(a, ms[i], t.value * 2 * Grain + n) :
             a \in accs, n \in random[i]},
          random)

\* Math.random() * (depth === 2 ? 2 : 0.5), in each of the callbacks: any
\* level below the bound.
Random(ms, depth) == [i \in 1..Len(ms) |-> NoiseLevels(depth)]

\* let bestMove = moves[0]; let bestValue = -Infinity.
BeforeLoop(ms) ==
  {[bestMove |-> IF ms = <<>> THEN undefined ELSE ms[1],
    bestValue |-> 0, negInfinity |-> TRUE]}

\* The loop of findBestMove over the moves ms of g, and what it returns:
\* the moves bestMove can be, and g as the loop leaves it.
Loop(ms, g, depth) == ForEach(ms, 1, g, BeforeLoop(ms), Random(ms, depth))
Returned(r) == [moves |-> {a.bestMove : a \in r.outcomes}, game |-> r.game]

\* findBestMove(game, depth)
findBestMove(g, depth) == Returned(Loop(moves(g), g, depth))

\* ------------------------------------------------------------------------
\* The component: state, handlers and timer callbacks
\* ------------------------------------------------------------------------

VARIABLES
  game,        \* useState(new Chess())
  difficulty,  \* useState('easy')
  showHint,    \* useState(false)
  hintMove,    \* useState('')
  timers,      \* the pending setTimeout callbacks, in the order they fire
  last,        \* what the last handler or callback did or returned
  drops        \* how many drops have been accepted so far

vars == <<game, difficulty, showHint, hintMove, timers, last, drops>>

Difficulties == {"easy", "amateur", "pro"}

\* Bounds of the model.
MaxDrops == 2
MaxHintTimers == 1

SquareNames == {Algebraic(s) : s \in Squares}

\* The callbacks handed to setTimeout.  makeComputerMove is the function of
\* the render that scheduled it: it reads that render's game and difficulty.
ComputerMoveTimer(g, d) ==
  [callback |-> "makeComputerMove", game |-> g, difficulty |-> d]
HideHintTimer == [callback |-> "hideHint"]

IsComputerTimer(t) == t.callback = "makeComputerMove"
PendingComputer == {i \in 1..Len(timers) : IsComputerTimer(timers[i])}
PendingHide == {i \in 1..Len(timers) : ~IsComputerTimer(timers[i])}

InsertAt(seq, p, x) == SubSeq(seq, 1, p - 1) \o <<x>> \o SubSeq(seq, p, Len(seq))

\* setTimeout(f, 300): f fires after every timer that is due earlier.  The
\* pending makeComputerMove timers (300 ms, set earlier) are; a pending
\* hideHint timer (2000 ms) is due earlier or later depending on when it
\* was set, and those due earlier come first in the list.
After300(seq) ==
  {p \in 1..(Len(seq) + 1) : \A i \in p..Len(seq) : ~IsComputerTimer(seq[i])}

\* After2000 without the timer: C18 tells the two apart.
After2000NotSet(seq, t) == seq

\* setTimeout(f, 2000): no pending timer is due later.
After2000(seq, t) == Append(seq, t)

Init ==
  /\ game = NewChess
  /\ difficulty = "easy"
  /\ showHint = FALSE
  /\ hintMove = EmptyString
  /\ timers = <<>>
  /\ last = [op |-> "render", ret |-> TRUE]
  /\ drops = 0


\* The pairs of squares for which game.move({from, to, promotion}) finds a
\* legal move; for every other pair it finds none.
Accepted(legal, promo) ==
  {<<Algebraic(legal[i].from), Algebraic(legal[i].to)>> :
     i \in {j \in 1..Len(legal) : legal[j].promotion \in {NoPromotion, promo}}}

\* dropRejected with the timer set before the move is tested: C5 tells the
\* two apart.
dropRejectedAfterTimeout ==
  /\ last' = [op |-> "onDrop", ret |-> FALSE]
  /\ timers' = Append(timers, ComputerMoveTimer(game, difficulty))
  /\ UNCHANGED <<game, difficulty, showHint, hintMove, drops>>

\* onDrop when the move is not found: return false (from the null test or
\* from the catch); nothing has been set.
dropRejected ==
  /\ last' = [op |-> "onDrop", ret |-> FALSE]
  /\ UNCHANGED <<game, difficulty, showHint, hintMove, timers, drops>>

\* dropAccepted hiding the hint as well: C7 tells the two apart.
dropAcceptedHidingHint(gameCopy, m) ==
  /\ game' = MakeMove(gameCopy, m)
  /\ \E p \in After300(timers) :
       timers' = InsertAt(timers, p, ComputerMoveTimer(game, difficulty))
  /\ last' = [op |-> "onDrop", ret |-> TRUE]
  /\ drops' = drops + 1
  /\ showHint' = FALSE
  /\ UNCHANGED <<difficulty, hintMove>>

\* onDrop when the move m is found: setGame(gameCopy), setTimeout(
\* makeComputerMove, 300) with the makeComputerMove of this render, return
\* true.
dropAccepted(gameCopy, m) ==
  /\ game' = MakeMove(gameCopy, m)
  /\ \E p \in After300(timers) :
       timers' = InsertAt(timers, p, ComputerMoveTimer(game, difficulty))
  /\ last' = [op |-> "onDrop", ret |-> TRUE]
  /\ drops' = drops + 1
  /\ UNCHANGED <<difficulty, showHint, hintMove>>

\* onDrop(sourceSquare, targetSquare), for every pair of squares the board
\* component can report: the move is tried on a copy made from the FEN.
onDrop ==
  \E gameCopy \in {Chess(fen(game))} :
  \E legal \in {LegalMoves(gameCopy)} :
    \/ /\ (SquareNames \X SquareNames) \ Accepted(legal, "q") # {}
       /\ dropRejected
    \/ /\ drops < MaxDrops
       /\ \E sq \in Accepted(legal, "q") :
            dropAccepted(gameCopy, DropMatches(legal, sq[1], sq[2], "q")[1])

\* The depth findBestMove is called with under 'amateur' and 'pro'.
Depth(d) == IF d = "amateur" THEN 2 ELSE 4

\* ComputerChoices with Math.ceil for Math.floor under 'easy': the index can
\* be the length of the array, where the element is undefined.  C11 tells
\* the two apart.
ComputerChoicesCeil(g, d, possibleMoves) ==
  CASE d = "easy" ->
         {IF i < Len(possibleMoves) THEN possibleMoves[i + 1] ELSE undefined :
            i \in 1..Len(possibleMoves)}
    [] OTHER -> findBestMove(g, IF d = "amateur" THEN 2 ELSE 4).moves

\* The move makeComputerMove picks for the game g and difficulty d of its
\* render: the set of moves the random draws can give.
ComputerChoices(g, d, possibleMoves) ==
  CASE d = "easy" -> {possibleMoves[i] : i \in 1..Len(possibleMoves)}
    [] OTHER -> findBestMove(g, Depth(d)).moves

\* makeComputerMove, run by its timer: c is the closure that was scheduled.
makeComputerMove(c) ==
  \E possibleMoves \in {moves(c.game)} :
     IF isGameOver(c.game) \/ possibleMoves = <<>>
     THEN /\ last' = [op |-> "makeComputerMove", ret |-> FALSE]
          /\ UNCHANGED <<game, difficulty, showHint, hintMove, drops>>
     ELSE /\ \E mv \in ComputerChoices(c.game, c.difficulty, possibleMoves) :
               game' = move(Chess(fen(c.game)), mv)
          /\ last' = [op |-> "makeComputerMove", ret |-> TRUE]
          /\ UNCHANGED <<difficulty, showHint, hintMove, drops>>

\* () => setShowHint(false), run by its timer.
hideHint ==
  /\ showHint' = FALSE
  /\ last' = [op |-> "hideHint", ret |-> TRUE]
  /\ UNCHANGED <<game, difficulty, hintMove, drops>>

\* The timer that is due first fires.
TimerFires ==
  /\ timers # <<>>
  /\ timers' = Tail(timers)
  /\ IF IsComputerTimer(Head(timers))
     THEN makeComputerMove(Head(timers))
     ELSE hideHint

\* The moves getHint can store for the game g: findBestMove(game, 3).
HintChoices(g) == findBestMove(g, 3).moves

\* getHint
getHint ==
  /\ \E r \in {findBestMove(game, 3)} :
        /\ \E hint \in r.moves : hintMove' = hint
        /\ game' = r.game
  /\ showHint' = TRUE
  /\ timers' = After2000(timers, HideHintTimer)
  /\ last' = [op |-> "getHint", ret |-> TRUE]
  /\ UNCHANGED <<difficulty, drops>>

\* resetState without setHintMove(''): C6 tells the two apart.
resetStateKeepingHintMove ==
  /\ game' = NewChess
  /\ showHint' = FALSE
  /\ UNCHANGED hintMove

\* The three setters of resetGame.
resetState ==
  /\ game' = NewChess
  /\ showHint' = FALSE
  /\ hintMove' = EmptyString

\* resetGame, as the Reset Game button calls it.
resetGame ==
  /\ resetState
  /\ last' = [op |-> "resetGame", ret |-> TRUE]
  /\ UNCHANGED <<difficulty, timers, drops>>

\* onClick of a difficulty button: setDifficulty(d); resetGame().
selectDifficulty(d) ==
  /\ difficulty' = d
  /\ resetState
  /\ last' = [op |-> "selectDifficulty", ret |-> TRUE, level |-> d]
  /\ UNCHANGED <<timers, drops>>

SelectDifficulty == \E d \in Difficulties : selectDifficulty(d)

\* Whether fewer than n hints are waiting to be hidden.
HintsBelow(n) == Cardinality(PendingHide) < n

Next ==
  \/ onDrop
  \/ TimerFires
  \/ HintsBelow(MaxHintTimers) /\ getHint
  \/ resetGame
  \/ SelectDifficulty

Spec == Init /\ [][Next]_vars

\* What every step of TimerFires does to the timers, and no other step of
\* the component does: the timer that is due first leaves them.
TimerFired == timers # <<>> /\ timers' = Tail(timers)

\* The same with the timers firing sooner or later: the timer that is due
\* first is not left pending for ever.
LiveSpec == Spec /\ WF_timers(TimerFired)

\* Bound: how many hints can wait to be hidden when no piece is dropped.
MaxPendingHints == 3

\* The component when no piece is dropped: hints, resets and timers only.
HintNext ==
  \/ TimerFires
  \/ HintsBelow(MaxPendingHints) /\ getHint
  \/ resetGame
  \/ SelectDifficulty

HintSpec == Init /\ [][HintNext]_vars

\* ------------------------------------------------------------------------
\* Move selection and evaluation on their own
\* ------------------------------------------------------------------------

\* Bound: how many moves lead from the first positions to the positions
\* the functions are applied to.
MaxPlies == 2

\* A FEN with a pawn of each side one step from promotion.
PromotionFen ==
  [placement |-> << <<"k", "2">>,
                    <<"2", "P">>,
                    <<"3">>,
                    <<"p", "2">>,
                    <<"2", "K">> >>,
   turn |-> "w"]

\* The first positions: new Chess() and new Chess(fen) for that FEN.
FirstPositions == {NewChess, Chess(PromotionFen)}

\* The positions reached from them in n moves or fewer, whoever plays
\* them: every legal move of every position is followed.
Moved(g, legal) == {MakeMove(g, legal[i]) : i \in 1..Len(legal)}
AfterOneMore(positions) ==
  positions \cup UNION {Moved(g, LegalMoves(g)) : g \in positions}
RECURSIVE Reach(_)
Reach(n) == IF n = 0 THEN FirstPositions ELSE AfterOneMore(Reach(n - 1))

\* The component with any of these positions as game and any difficulty.
SelectInit ==
  /\ game \in Reach(MaxPlies)
  /\ difficulty \in Difficulties
  /\ showHint = FALSE
  /\ hintMove = EmptyString
  /\ timers = <<>>
  /\ last = [op |-> "render", ret |-> TRUE]
  /\ drops = 0

\* Each of the actions below is one call made in the initial state.

\* The switch of makeComputerMove on a position that has moves: the move it
\* assigns, for every outcome of the random draws.
switch ==
  /\ last.op = "render"
  /\ \E possibleMoves \in {moves(game)} :
       /\ possibleMoves # <<>>
       /\ \E mv \in ComputerChoices(game, difficulty, possibleMoves) :
            last' = [op |-> "switch", ret |-> mv]
  /\ UNCHANGED <<game, difficulty, showHint, hintMove, timers, drops>>

\* Draws of Math.random() * bound over the n callbacks of one loop: a level
\* a in the first k callbacks and a level b in the others, a and b each
\* the least or the greatest level below the bound.
Steps(n, depth) ==
  LET top == (IF depth = 2 THEN 4 ELSE 1) * Grain - 1
  IN {[i \in 1..n |-> IF i <= k THEN a ELSE b] :
        k \in 0..n, a \in {0, top}, b \in {0, top}}

\* One run of findBestMove(game, depth) in which Math.random() gives the
\* draws of random: what it returns.
findBestMoveOnce ==
  /\ last.op = "render"
  /\ \E ms \in {moves(game)} :
     \E depth \in {2, 3, 4} :
     \E random \in Steps(Len(ms), depth) :
     \E r \in {ForEach(ms, 1, game, BeforeLoop(ms),
                       [i \in 1..Len(ms) |-> {random[i]}])} :
     \E a \in r.outcomes :
       last' = [op |-> "findBestMove", random |-> random, ret |-> a.bestMove]
  /\ UNCHANGED <<game, difficulty, showHint, hintMove, timers, drops>>

\* One call of evaluatePosition(game): what it returns.
evaluate ==
  /\ last.op = "render"
  /\ last' = [op |-> "evaluatePosition", ret |-> evaluatePosition(game)]
  /\ UNCHANGED <<game, difficulty, showHint, hintMove, timers, drops>>

SelectNext ==
  \/ switch
  \/ findBestMoveOnce
  \/ evaluate

SelectSpec == SelectInit /\ [][SelectNext]_vars

\* ------------------------------------------------------------------------
\* Properties
\* ------------------------------------------------------------------------

\* C1: when the computer's reply is committed, it is a legal move of the
\* position the board holds at that moment (the one that contains the
\* player's move), played on that position.
C1_ReplyPlayedOnCommittedPosition ==
  [][(last'.op = "makeComputerMove" /\ last'.ret)
       => LET L == LegalMoves(game)
          IN \E i \in 1..Len(L) : game' = MakeMove(game, L[i])]_vars

\* C2: when makeComputerMove runs while the position on the board is over
\* (checkmate, stalemate or draw), it leaves the position as it is.
C2_NoReplyOnceGameOver ==
  [][(last'.op = "makeComputerMove" /\ isGameOver(game)) => game' = game]_vars

\* C3: a reply committed by makeComputerMove is a move of the side whose
\* turn it is on the board, so the turn passes to the other side.
C3_ReplyIsOfTheSideToMove ==
  [][(last'.op = "makeComputerMove" /\ last'.ret)
       => game'.turn = Other(game.turn)]_vars

\* C4: at most one makeComputerMove is pending at any time.
C4_AtMostOnePendingReply == Cardinality(PendingComputer) <= 1

\* C5: a drop either returns false and changes neither the position, the
\* difficulty, the hint nor the pending timers, or it returns true and the
\* new position is the old one after one of its legal moves; so a drop
\* that names no legal move returns false and changes nothing.
C5_IllegalDropChangesNothing ==
  [][last'.op = "onDrop"
       => IF last'.ret
          THEN LET L == LegalMoves(game)
               IN \E i \in 1..Len(L) : game' = MakeMove(game, L[i])
          ELSE /\ game' = game /\ fen(game') = fen(game)
               /\ difficulty' = difficulty
               /\ showHint' = showHint /\ hintMove' = hintMove
               /\ timers' = timers]_vars

\* C5, its case: a drop from e2 to e5, not a legal move of the starting
\* position, has just returned false there.
C5_Witness ==
  /\ last = [op |-> "onDrop", ret |-> FALSE]
  /\ game = NewChess
  /\ <<Algebraic(Sq(3, 1)), Algebraic(Sq(0, 1))>> \notin
       Accepted(LegalMoves(game), "q")
  /\ Algebraic(Sq(3, 1)) = <<"e", 2>>
  /\ Algebraic(Sq(0, 1)) = <<"e", 5>>

\* C6: right after a reset the position is the starting position, no hint
\* is shown and none is stored; right after a difficulty button is clicked
\* the same holds and the difficulty is the one of the button.
C6_ResetPostcondition ==
  /\ last.op \in {"resetGame", "selectDifficulty"}
       => /\ fen(game) = DEFAULT_POSITION
          /\ showHint = FALSE
          /\ hintMove = EmptyString
  /\ last.op = "selectDifficulty" => difficulty = last.level

\* C6, its case: a reset after a move was accepted and while a hint is
\* still waiting to be hidden.
C6_Witness ==
  /\ last.op = "resetGame"
  /\ drops > 0
  /\ PendingHide # {}
  /\ game = NewChess /\ hintMove = EmptyString

C8_HintLeavesGameAlone ==
  [][last'.op = "getHint"
       => /\ game' = game
          /\ fen(game') = fen(game)
          /\ difficulty' = difficulty
          /\ SelectSeq(timers', IsComputerTimer) = SelectSeq(timers, IsComputerTimer)]_vars

\* C8, its case: a hint has just been computed for a position with legal
\* moves, and it is one of them.
C8_Witness ==
  /\ last.op = "getHint"
  /\ \E i \in 1..Len(moves(game)) : moves(game)[i] = hintMove

\* C9, as the specification states it: the moves a hint can be are the
\* moves makeComputerMove can pick under the current difficulty.
C9_HintFollowsDifficulty ==
  HintChoices(game) = ComputerChoices(game, difficulty, moves(game))

\* C9, as the code has it: under every difficulty the moves a hint can be
\* are the moves makeComputerMove can pick under 'pro' (noise below 0.5).
C9_HintIsProChoice ==
  LET pro == ComputerChoices(game, "pro", moves(game))
  IN /\ HintChoices(game) = pro
     /\ last.op = "getHint" => hintMove \in pro

\* C9, its case: a hint has just been computed under a difficulty other
\* than 'pro' for a position where that difficulty can pick other moves.
C9_Witness ==
  /\ last.op = "getHint"
  /\ difficulty # "pro"
  /\ hintMove \in HintChoices(game)
  /\ HintChoices(game) # ComputerChoices(game, difficulty, moves(game))

\* C10: the hint getHint stores is one of the legal moves of the position
\* it was asked for (never undefined).
C10_HintIsALegalMove ==
  [][last'.op = "getHint"
       => \E i \in 1..Len(moves(game)) : moves(game)[i] = hintMove']_vars

\* White's material minus Black's on a board, counted piece by piece with
\* pawn 1, knight 3, bishop 3, rook 5, queen 9, king 0.
Count(board, c, t) == Cardinality({s \in Squares : board[s] = Piece(c, t)})
Material(board) ==
    1 * (Count(board, "w", "p") - Count(board, "b", "p"))
  + 3 * (Count(board, "w", "n") - Count(board, "b", "n"))
  + 3 * (Count(board, "w", "b") - Count(board, "b", "b"))
  + 5 * (Count(board, "w", "r") - Count(board, "b", "r"))
  + 9 * (Count(board, "w", "q") - Count(board, "b", "q"))
  + 0 * (Count(board, "w", "k") - Count(board, "b", "k"))

\* The greatest material any legal move of g leads to.
BestMaterial(g) ==
  LET L == LegalMoves(g)
      after == {Material(MakeMove(g, L[i]).board) : i \in 1..Len(L)}
  IN CHOOSE m \in after : \A n \in after : n <= m

\* C11: for a position with legal moves, whatever the difficulty and the
\* random draws, the move the switch of makeComputerMove assigns is one of
\* the moves game.moves() lists, and it names a legal move of the position.
C11_SelectedMoveIsLegal ==
  last.op = "switch"
    => /\ \E i \in 1..Len(moves(game)) : moves(game)[i] = last.ret
       /\ IsLegal(game, Mv(last.ret.from, last.ret.to, last.ret.promotion))

\* C11, its case: under 'amateur' the switch has assigned a move other than
\* the first of a position with several legal moves.
C11_Witness ==
  /\ last.op = "switch"
  /\ difficulty = "amateur"
  /\ Len(moves(game)) > 1
  /\ last.ret # moves(game)[1]
  /\ \E i \in 2..Len(moves(game)) : moves(game)[i] = last.ret

\* C12: for given draws of the noise, findBestMove returns the first move,
\* in the order of game.moves(), whose score (evaluation after the move
\* plus its draw) is the greatest; so with every draw zero and several
\* moves of equal evaluation it returns the first of them.
C12_FirstOfTheBestIsReturned ==
  (last.op = "findBestMove" /\ LegalMoves(game) # <<>>)
    => LET L == LegalMoves(game)
           score(i) == Material(MakeMove(game, L[i]).board) * 2 * Grain
                       + last.random[i]
           first == CHOOSE i \in 1..Len(L) :
                      /\ \A j \in 1..Len(L) : score(j) <= score(i)
                      /\ \A j \in 1..(i - 1) : score(j) < score(i)
       IN last.ret = San(game, L[first])

\* C12, its case: every draw was zero, a later move has the same evaluation
\* as the first one, none has a greater one, and the first was returned.
C12_Witness ==
  /\ last.op = "findBestMove"
  /\ Len(LegalMoves(game)) > 1
  /\ \A i \in 1..Len(LegalMoves(game)) : last.random[i] = 0
  /\ Material(MakeMove(game, LegalMoves(game)[1]).board) = BestMaterial(game)
  /\ Material(MakeMove(game, LegalMoves(game)[2]).board) = BestMaterial(game)
  /\ last.ret = moves(game)[1]

\* C13: evaluatePosition returns White's material minus Black's with the
\* values pawn 1, knight 3, bishop 3, rook 5, queen 9, king 0: it is 0 for
\* the starting position and at material parity, and the same whichever
\* side is to move.
C13_EvaluationIsMaterial ==
  last.op = "evaluatePosition"
    => /\ last.ret = Material(game.board)
       /\ (game = NewChess => last.ret = 0)
       /\ evaluatePosition([game EXCEPT !.turn = Other(game.turn)]) = last.ret

\* C13, its case: a position with a promoted knight, bishop or queen and
\* unequal material has been evaluated.
C13_Witness ==
  /\ last.op = "evaluatePosition"
  /\ \E s \in Squares : game.board[s].type \in {"n", "b", "q"}
  /\ last.ret # 0

\* C14, as the specification states it: after the drop from e2 to e4 on
\* the starting position is accepted, and before makeComputerMove commits,
\* it is not yet Black's turn.
C14_TurnNotYetBlackAfterDrop ==
  [][(game = NewChess /\ last'.op = "onDrop" /\ last'.ret
        /\ game'.board = MakeMove(NewChess, Mv(Sq(3, 1), Sq(1, 1), NoPromotion)).board)
       => game'.turn # "b"]_vars

\* C14, as the code has it: on the starting position the drop from e2 to
\* e4 is accepted, and once it is committed it is Black's turn at once,
\* while the makeComputerMove it scheduled is still pending.
C14_TurnIsBlackAfterDrop ==
  [][game = NewChess
       => /\ <<Algebraic(Sq(3, 1)), Algebraic(Sq(1, 1))>> \in
               Accepted(LegalMoves(game), "q")
          /\ (last'.op = "onDrop" /\ last'.ret
                /\ game'.board = MakeMove(NewChess, Mv(Sq(3, 1), Sq(1, 1), NoPromotion)).board)
               => /\ game'.turn = "b"
                  /\ \E i \in 1..Len(timers') : IsComputerTimer(timers'[i])]_vars

\* C14, its case: the drop from e2 to e4 has just been accepted on the
\* starting position and its makeComputerMove has not run yet.
C14_Witness ==
  /\ last = [op |-> "onDrop", ret |-> TRUE]
  /\ Algebraic(Sq(3, 1)) = <<"e", 2>> /\ Algebraic(Sq(1, 1)) = <<"e", 4>>
  /\ game.board[Sq(1, 1)] = Piece("w", "p")
  /\ game.board[Sq(3, 1)] = null
  /\ game.turn = "b"
  /\ drops = 1
  /\ PendingComputer # {}

\* C15: after a reset or a click on a difficulty button the position stays
\* the starting position until a drop is accepted: no makeComputerMove
\* scheduled earlier replaces it.
C15_ResetPositionStays ==
  [][last.op \in {"resetGame", "selectDifficulty"}
       => (game' = game \/ (last'.op = "onDrop" /\ last'.ret))]_vars

\* C16: the move makeComputerMove commits is one the difficulty selected at
\* the time it runs can pick, on the position it works from.
C16_ReplyUsesCurrentDifficulty ==
  [][(last'.op = "makeComputerMove" /\ last'.ret)
       => \E mv \in ComputerChoices(Head(timers).game, difficulty,
                                    moves(Head(timers).game)) :
            game' = move(Chess(fen(Head(timers).game)), mv)]_vars

\* C17: the timer of an earlier getHint does not hide the hint of a later
\* one: when a hint is shown and a hiding timer fires while another is
\* still pending, the hint stays shown.
C17_EarlierTimerKeepsLaterHint ==
  [][(last'.op = "hideHint" /\ showHint
        /\ \E i \in 1..Len(timers') : ~IsComputerTimer(timers'[i]))
       => showHint']_vars

\* C18: a hint that is shown is hidden sooner or later, whatever drops,
\* computer moves and resets happen meanwhile, provided pending timers fire.
C18_HintEventuallyHidden == showHint ~> ~showHint

\* C18, its case: a hint is shown while a drop has been accepted and its
\* makeComputerMove is pending too.
C18_Witness ==
  /\ showHint
  /\ PendingHide # {}
  /\ PendingComputer # {}
  /\ drops > 0

\* C19: under 'pro' the move assigned leads to the greatest material
\* (White's minus Black's) any legal move leads to; under 'amateur' it
\* leads to more than that greatest material minus 2; whichever side is to
\* move.
C19_SelectedMoveNearBest ==
  (last.op = "switch" /\ difficulty # "easy")
    => LET m == Mv(last.ret.from, last.ret.to, last.ret.promotion)
           got == Material(MakeMove(game, m).board)
       IN IF difficulty = "pro"
          THEN got = BestMaterial(game)
          ELSE got > BestMaterial(game) - 2

\* C19, its case: with Black to move, 'amateur' has assigned a move that
\* leads to less than the greatest material.
C19_Witness ==
  /\ last.op = "switch"
  /\ difficulty = "amateur"
  /\ game.turn = "b"
  /\ Material(MakeMove(game, Mv(last.ret.from, last.ret.to,
                                last.ret.promotion)).board)
       = BestMaterial(game) - 1

====
